---- MODULE Spec2Model ----
(***************************************************************************)
(* queryObserver.js: queryObserverAll (AllMatcher) and queryObserver       *)
(* (FirstMatcher) over a small document tree and the host's               *)
(* MutationObserver (DOM Standard: registered and transient registered     *)
(* observers, record queue, microtask delivery, disconnect).               *)
(***************************************************************************)
EXTENDS Integers, Sequences, FiniteSets, TLC

(* ---------------------------------------------------------------------- *)
(* The node universe.  Body is document.body; the other nodes are created  *)
(* detached (document.createElement) and attached by the script.          *)
(* ---------------------------------------------------------------------- *)
Body == "body"
Sub == "sub"
Box == "box"
DivA == "divA"
DivB == "divB"
Text == "text"

\* total number of tree operations the scripts and callbacks perform
MaxOps == 3

Node == {Sub, Box, DivA, DivB, Text}
AllNode == {Body} \cup Node
None == "null"

\* node instanceof Element
Elements == AllNode \ {Text}

\* node.matches(selector)
Matches(n) == n \in {DivA, DivB}

\* the values the caller may pass as "parent"
Parents == {Body, Sub}

VARIABLES
    children,   \* the tree: ordered child list of every node
    kind,       \* "all" = queryObserverAll, "first" = queryObserver
    current,    \* the argument current
    parent,     \* the argument parent
    pc,         \* "setup": not called yet; "scan": inside the pre-scan loop;
                \* "run": call returned, no handler running; "handler": inside
                \* the mutation callback of queryObserverAll
    cbq,        \* nodes the running loop will still pass to callback
    todo,       \* added nodes of the delivered batch not yet visited
    connected,  \* the observer is registered on parent
    transient,  \* nodes holding a transient registered observer
    queue,      \* the observer's record queue
    found,      \* queryObserver's local flag
    handle,     \* "none": nothing returned yet; "disconnect"; "noop"
    calls,      \* history of callback invocations
    ops,        \* number of tree operations performed
    hist        \* observation only: facts about the past the claims refer to

vars == <<children, kind, current, parent, pc, cbq, todo, connected,
          transient, queue, found, handle, calls, ops, hist>>

(* ---------------------------------------------------------------------- *)
(* Tree queries                                                            *)
(* ---------------------------------------------------------------------- *)
SeqToSet(s) == {s[i] : i \in 1..Len(s)}

Without(s, n) == SelectSeq(s, LAMBDA x : x # n)

ParentOf(ch, n) ==
    IF \E p \in AllNode : n \in SeqToSet(ch[p])
    THEN CHOOSE p \in AllNode : n \in SeqToSet(ch[p])
    ELSE None

RECURSIVE DescOfSeq(_, _)
\* the nodes below the nodes of s, with them, in document (pre-)order
DescOfSeq(ch, s) ==
    IF s = <<>> THEN <<>>
    ELSE <<Head(s)>> \o DescOfSeq(ch, ch[Head(s)]) \o DescOfSeq(ch, Tail(s))

\* the descendants of n in document order, n excluded
Descendants(ch, n) == DescOfSeq(ch, ch[n])

InclDesc(ch, n) == {n} \cup SeqToSet(Descendants(ch, n))

InclAnc(ch, n) == {a \in AllNode : n \in InclDesc(ch, a)}

\* node.querySelectorAll(selector): matching descendants, document order
QuerySelectorAll(ch, n) == SelectSeq(Descendants(ch, n), Matches)

\* node.querySelector(selector): first matching descendant or null
QuerySelector(ch, n) ==
    IF QuerySelectorAll(ch, n) = <<>> THEN None
    ELSE Head(QuerySelectorAll(ch, n))

\* document.querySelectorAll(selector): the whole document
DocQuerySelectorAll(ch) == QuerySelectorAll(ch, Body)

\* document.querySelector(selector)
DocQuerySelector(ch) == QuerySelector(ch, Body)

(* ---------------------------------------------------------------------- *)
(* Tree mutation and the observer's bookkeeping.  A "world" w is the part  *)
(* of the state a tree operation or a disconnect can change:               *)
(* [children, transient, queue, connected, ops, hist].                     *)
(* ---------------------------------------------------------------------- *)

\* A registered observer (options childList, subtree) on an inclusive
\* ancestor of target, transient ones included, receives target's records.
Interested(w, par, target) ==
    \/ w.connected /\ par \in InclAnc(w.children, target)
    \/ \E a \in InclAnc(w.children, target) : a \in w.transient

\* a childList MutationRecord; "inside" is observation only: the matching
\* descendants each added node had when it was inserted
Record(ch, target, added, removed) ==
    [target |-> target, addedNodes |-> added, removedNodes |-> removed,
     inside |-> [i \in 1..Len(added) |-> QuerySelectorAll(ch, added[i])]]

\* DOM "remove": n leaves its parent; observers of the old ancestors keep
\* watching n through a transient registered observer until delivery
Detach(w, par, n) ==
    LET old == ParentOf(w.children, n)
        ch2 == [w.children EXCEPT ![old] = Without(@, n)]
    IN  IF old = None THEN w
        ELSE IF Interested(w, par, old)
        THEN [w EXCEPT !.children = ch2,
                       !.transient = @ \cup {n},
                       !.queue = Append(@, Record(ch2, old, <<>>, <<n>>))]
        ELSE [w EXCEPT !.children = ch2]

\* DOM "insert": nodes are appended to p in one step, one record
Insert(w, par, p, nodes) ==
    LET ch2 == [w.children EXCEPT ![p] = @ \o nodes]
        w2 == [w EXCEPT !.children = ch2]
    IN  IF Interested(w2, par, p)
        THEN [w2 EXCEPT !.queue = Append(@, Record(ch2, p, nodes, <<>>))]
        ELSE w2

\* observation only: the nodes that have been inside the subtree of parent,
\* and how often each node was inserted, itself or inside an inserted node,
\* since the call
Remember(w, par, nodes) ==
    [w EXCEPT !.hist.everInside = @ \cup InclDesc(w.children, par),
              !.hist.ins = [x \in AllNode |->
                    IF w.hist.called
                       /\ \E a \in nodes : x \in InclDesc(w.children, a)
                    THEN @[x] + 1 ELSE @[x]],
              !.ops = @ + 1]

\* a disconnect that leaves the observer attached
DisconnectNot(w) == w

\* a handle that attaches the observer again when it is already detached
DisconnectToggles(w) ==
    [w EXCEPT !.connected = ~@, !.transient = {}, !.queue = <<>>]

\* a disconnect that leaves the undelivered records in the queue
DisconnectKeepsQueue(w) ==
    [w EXCEPT !.connected = FALSE]

\* observer.disconnect()
Disconnect(w) ==
    [w EXCEPT !.connected = FALSE, !.transient = {}, !.queue = <<>>]

\* the insertions the scripts of the model perform: p.appendChild(a)
MayHold(p, a) ==
    \/ p = Body /\ a \in {Sub, Box, DivA}
    \/ p = Sub /\ a \in {Box, DivA, DivB, Text}
    \/ p = Box /\ a \in {DivA, DivB}
    \/ p = DivA /\ a = DivB

\* what a script may do in one step: p.appendChild(a), p.append(a, b),
\* a.remove()
TreeOps ==
    {[op |-> "append", p |-> p, a |-> a, b |-> None] :
        p \in Elements, a \in Node}
    \cup {[op |-> "append2", p |-> p, a |-> a, b |-> b] :
        p \in {Sub}, a \in {DivB}, b \in {DivA}}
    \cup {[op |-> "remove", p |-> None, a |-> a, b |-> None] : a \in {Box}}

NoOp == [op |-> "none", p |-> None, a |-> None, b |-> None]
CancelOp == [op |-> "cancel", p |-> None, a |-> None, b |-> None]

\* the operation does not throw (HierarchyRequestError) and is within bound
CanDo(w, e) ==
    CASE e.op = "append" ->
            /\ w.ops < MaxOps
            /\ MayHold(e.p, e.a)
            /\ e.p \notin InclDesc(w.children, e.a)
      [] e.op = "append2" ->
            /\ w.ops < MaxOps
            /\ e.a # e.b
            /\ e.p \notin InclDesc(w.children, e.a)
            /\ e.p \notin InclDesc(w.children, e.b)
      [] e.op = "remove" ->
            /\ w.ops < MaxOps
            /\ ParentOf(w.children, e.a) # None
      [] OTHER -> TRUE

Do(w, par, hdl, e) ==
    CASE e.op = "append" ->
            Remember(Insert(Detach(w, par, e.a), par, e.p, <<e.a>>), par, {e.a})
      [] e.op = "append2" ->
            Remember(Insert(Detach(Detach(w, par, e.a), par, e.b),
                            par, e.p, <<e.a, e.b>>), par, {e.a, e.b})
      [] e.op = "remove" ->
            Remember(Detach(w, par, e.a), par, {})
      [] e.op = "cancel" ->
            [(IF hdl = "disconnect" THEN Disconnect(w) ELSE w)
                EXCEPT !.hist.cancelled = TRUE]
      [] OTHER -> w

World ==
    [children |-> children, transient |-> transient, queue |-> queue,
     connected |-> connected, ops |-> ops, hist |-> hist]

SetWorld(w) ==
    /\ children' = w.children
    /\ transient' = w.transient
    /\ queue' = w.queue
    /\ connected' = w.connected
    /\ ops' = w.ops
    /\ hist' = w.hist

(* ---------------------------------------------------------------------- *)
(* The code of queryObserver.js                                            *)
(* ---------------------------------------------------------------------- *)

\* callback(node), as the history sees it
Call(n, via) == [node |-> n, via |-> via]

RECURSIVE AddedNodes(_)
\* for (const mutation of mutations) for (const node of mutation.addedNodes)
AddedNodes(records) ==
    IF records = <<>> THEN <<>>
    ELSE Head(records).addedNodes \o AddedNodes(Tail(records))

\* the callbacks of one added node without the check of the node itself
NodeCallbacksOnlyChildren(ch, n) ==
    IF n \in Elements THEN QuerySelectorAll(ch, n) ELSE <<>>

\* the callbacks of one added node with the descendants reported first
NodeCallbacksChildrenFirst(ch, n) ==
    IF n \in Elements
    THEN QuerySelectorAll(ch, n) \o (IF Matches(n) THEN <<n>> ELSE <<>>)
    ELSE <<>>

\* the callbacks of one added node made without the node.matches test
NodeCallbacksUnchecked(ch, n) ==
    IF n \in Elements THEN <<n>> \o QuerySelectorAll(ch, n) ELSE <<>>

\* queryObserverAll, one added node: the callbacks its turn of the loop makes
NodeCallbacks(ch, n) ==
    IF n \in Elements
    THEN (IF Matches(n) THEN <<n>> ELSE <<>>) \o QuerySelectorAll(ch, n)
    ELSE <<>>

\* the loops of queryObserverAll leaving the batch after the first added
\* node that yields a callback, as queryObserver's "break outer" does
AdvanceBreaks(ch, nodes) ==
    LET hits == {i \in 1..Len(nodes) : NodeCallbacks(ch, nodes[i]) # <<>>}
        i == CHOOSE k \in hits : \A j \in hits : k <= j
    IN  IF hits = {} THEN [cbq |-> <<>>, todo |-> <<>>]
        ELSE [cbq |-> NodeCallbacks(ch, nodes[i]), todo |-> <<>>]

RECURSIVE Advance(_, _)
\* queryObserverAll: run the loops up to the next callback invocation
Advance(ch, nodes) ==
    IF nodes = <<>> THEN [cbq |-> <<>>, todo |-> <<>>]
    ELSE IF NodeCallbacks(ch, Head(nodes)) # <<>>
    THEN [cbq |-> NodeCallbacks(ch, Head(nodes)), todo |-> Tail(nodes)]
    ELSE Advance(ch, Tail(nodes))

\* the report of one added node with the descendant check done first
NodePickChildFirst(ch, n) ==
    IF n \notin Elements THEN None
    ELSE IF QuerySelector(ch, n) # None THEN QuerySelector(ch, n)
    ELSE IF Matches(n) THEN n
    ELSE None

\* queryObserver, one added node: the node it would report, or null
NodePick(ch, n) ==
    IF n \notin Elements THEN None
    ELSE IF Matches(n) THEN n
    ELSE QuerySelector(ch, n)

RECURSIVE FirstPick(_, _)
\* queryObserver: the loops "outer", up to the first report
FirstPick(ch, nodes) ==
    IF nodes = <<>> THEN None
    ELSE IF NodePick(ch, Head(nodes)) # None THEN NodePick(ch, Head(nodes))
    ELSE FirstPick(ch, Tail(nodes))

\* observer.observe(parent, {childList: true, subtree: true}) and
\* return () => observer.disconnect()
Observe(w) == [w EXCEPT !.connected = TRUE]

\* a queryObserver whose pre-scan hit falls through to observer.observe
EarlyReturnObserves(w) == [w EXCEPT !.connected = TRUE]

\* queryObserver, a pre-scan hit: return () => { }, no observer is created
EarlyReturn(w) == w

\* a pre-scan that runs whatever current is
PreScanAlways == TRUE

\* a pre-scan that never runs
PreScanNever == FALSE

\* if (current): whether the pre-scan runs
PreScan == current

\* what a callback may do besides returning: insert a matching element and,
\* once the caller holds the handle, invoke it
CallbackEffects(w, hdl) ==
    {e \in TreeOps \cup {NoOp, CancelOp} :
        /\ CanDo(w, e)
        /\ e.op \in {"append", "none", "cancel"}
        /\ e.op = "append" => e.a = DivA /\ e.p = parent
        /\ e.op = "cancel" => hdl # "none"}

HistInit(par) ==
    [everInside |-> {par}, ins |-> [x \in AllNode |-> 0], called |-> FALSE,
     cancelled |-> FALSE, atCall |-> {}, batch |-> <<>>, base |-> 0]

Init ==
    /\ children = [n \in AllNode |-> <<>>]
    /\ kind \in {"all", "first"}
    /\ current \in BOOLEAN
    /\ parent \in Parents
    /\ pc = "setup"
    /\ cbq = <<>>
    /\ todo = <<>>
    /\ connected = FALSE
    /\ transient = {}
    /\ queue = <<>>
    /\ found = FALSE
    /\ handle = "none"
    /\ calls = <<>>
    /\ ops = 0
    /\ hist = HistInit(parent)

\* a script changes the tree outside any callback
ScriptOp ==
    /\ pc \in {"setup", "run"}
    /\ \E e \in TreeOps :
        /\ CanDo(World, e)
        /\ SetWorld(Do(World, parent, handle, e))
    /\ UNCHANGED <<kind, current, parent, pc, cbq, todo, found, handle, calls>>

AtCall(w) ==
    [w EXCEPT !.hist.called = TRUE,
              !.hist.atCall = InclDesc(w.children, parent)]

\* queryObserverAll(selector, callback, current, parent), up to the first
\* callback of the pre-scan or, without one, to the return
QueryObserverAll ==
    /\ pc = "setup"
    /\ kind = "all"
    /\ IF PreScan /\ DocQuerySelectorAll(children) # <<>>
       THEN /\ cbq' = DocQuerySelectorAll(children)
            /\ pc' = "scan"
            /\ SetWorld(AtCall(World))
            /\ UNCHANGED handle
       ELSE /\ cbq' = <<>>
            /\ pc' = "run"
            /\ SetWorld(Observe(AtCall(World)))
            /\ handle' = "disconnect"
    /\ UNCHANGED <<kind, current, parent, todo, found, calls>>

\* queryObserverAll, pre-scan: one callback(node), then the rest of the
\* loop or, after the last node, observe and return
ScanCallback ==
    /\ pc = "scan"
    /\ cbq # <<>>
    /\ calls' = Append(calls, Call(Head(cbq), "scan"))
    /\ cbq' = Tail(cbq)
    /\ \E e \in CallbackEffects(World, handle) :
        IF Tail(cbq) = <<>>
        THEN /\ SetWorld(Observe(Do(World, parent, handle, e)))
             /\ handle' = "disconnect"
             /\ pc' = "run"
        ELSE /\ SetWorld(Do(World, parent, handle, e))
             /\ UNCHANGED <<handle, pc>>
    /\ UNCHANGED <<kind, current, parent, todo, found>>

\* notify mutation observers: the record queue is taken, the transient
\* registered observers are removed
Taken(w) ==
    [w EXCEPT !.queue = <<>>, !.transient = {},
              !.hist.batch = w.queue, !.hist.base = Len(calls)]

\* queryObserverAll's mutation callback, up to its first callback(node)
DeliverAll ==
    /\ pc = "run"
    /\ kind = "all"
    /\ queue # <<>>
    /\ SetWorld(Taken(World))
    /\ cbq' = Advance(children, AddedNodes(queue)).cbq
    /\ todo' = Advance(children, AddedNodes(queue)).todo
    /\ pc' = IF Advance(children, AddedNodes(queue)).cbq = <<>>
             THEN "run" ELSE "handler"
    /\ UNCHANGED <<kind, current, parent, found, handle, calls>>

\* queryObserverAll's mutation callback: one callback(node), then the loops
\* up to the next one or to the end of the batch
HandlerCallback ==
    /\ pc = "handler"
    /\ cbq # <<>>
    /\ calls' = Append(calls, Call(Head(cbq), "batch"))
    /\ \E e \in CallbackEffects(World, handle) :
        /\ SetWorld(Do(World, parent, handle, e))
        /\ IF Tail(cbq) # <<>>
           THEN /\ cbq' = Tail(cbq)
                /\ UNCHANGED <<todo, pc>>
           ELSE /\ cbq' = Advance(children', todo).cbq
                /\ todo' = Advance(children', todo).todo
                /\ pc' = IF Advance(children', todo).cbq = <<>>
                         THEN "run" ELSE "handler"
    /\ UNCHANGED <<kind, current, parent, found, handle>>

\* queryObserver(selector, callback, current, parent)
QueryObserver ==
    /\ pc = "setup"
    /\ kind = "first"
    /\ pc' = "run"
    /\ IF PreScan /\ DocQuerySelector(children) # None
       THEN /\ calls' = Append(calls, Call(DocQuerySelector(children), "scan"))
            /\ \E e \in CallbackEffects(World, handle) :
                SetWorld(EarlyReturn(Do(AtCall(World), parent, handle, e)))
            /\ handle' = "noop"
       ELSE /\ SetWorld(Observe(AtCall(World)))
            /\ handle' = "disconnect"
            /\ UNCHANGED calls
    /\ found' = FALSE
    /\ UNCHANGED <<kind, current, parent, cbq, todo>>

\* queryObserver's mutation callback
DeliverFirst ==
    /\ pc = "run"
    /\ kind = "first"
    /\ queue # <<>>
    /\ IF ~found /\ FirstPick(children, AddedNodes(queue)) # None
       THEN /\ found' = TRUE
            /\ calls' = Append(calls,
                    Call(FirstPick(children, AddedNodes(queue)), "batch"))
            /\ \E e \in CallbackEffects(Disconnect(Taken(World)), handle) :
                SetWorld(Do(Disconnect(Taken(World)), parent, handle, e))
       ELSE /\ SetWorld(Taken(World))
            /\ UNCHANGED <<found, calls>>
    /\ UNCHANGED <<kind, current, parent, pc, cbq, todo, handle>>

\* the caller invokes the returned handle outside any callback
Cancel ==
    /\ pc = "run"
    /\ handle # "none"
    /\ SetWorld(Do(World, parent, handle, CancelOp))
    /\ UNCHANGED <<kind, current, parent, pc, cbq, todo, found, handle, calls>>

Next ==
    \/ ScriptOp
    \/ QueryObserverAll
    \/ ScanCallback
    \/ DeliverAll
    \/ HandlerCallback
    \/ QueryObserver
    \/ DeliverFirst
    \/ Cancel

Spec == Init /\ [][Next]_vars

(* ---------------------------------------------------------------------- *)
(* Claims                                                                  *)
(* ---------------------------------------------------------------------- *)

\* how often callback received x from the mutation callback
BatchCalls(x) ==
    Cardinality({i \in 1..Len(calls) : calls[i].node = x /\ calls[i].via = "batch"})

ScanCalls(x) ==
    Cardinality({i \in 1..Len(calls) : calls[i].node = x /\ calls[i].via = "scan"})

Subtree == InclDesc(children, parent)

\* C1: queryObserverAll invokes the callback exactly once per matching
\* element inserted into the watched subtree; here its "never twice" half:
\* an element is never reported by the mutation callback more often than it
\* was inserted (itself or inside an inserted container).
C1_NeverTwice ==
    kind = "all" => \A x \in Node : BatchCalls(x) <= hist.ins[x]

\* C2: once the handle returned by queryObserverAll has been invoked, the
\* callback is never invoked again.
C2_NoCallAfterCancel ==
    [][(kind = "all" /\ hist.cancelled) => calls' = calls]_vars

\* C3: queryObserver invokes the callback at most once over the lifetime of
\* a subscription.
C3_AtMostOnce ==
    kind = "first" => Len(calls) <= 1

\* C3 witness: the mutation callback has reported one element and another
\* matching element, inserted since the call, sits in the subtree unreported.
C3_Witness ==
    /\ kind = "first"
    /\ found
    /\ Len(calls) = 1
    /\ \E x \in Subtree : Matches(x) /\ x # calls[1].node /\ hist.ins[x] > 0

\* C4: an element that was never inside the subtree of the given root is
\* never passed to the callback.
C4_ScopeRestriction ==
    \A i \in 1..Len(calls) : calls[i].node \in hist.everInside

\* C5: the pre-scan of queryObserverAll reports only elements that were the
\* root or its descendants at call time.
C5_PreScanScope ==
    kind = "all" =>
        \A i \in 1..Len(calls) :
            calls[i].via = "scan" => calls[i].node \in hist.atCall

\* C6: the element queryObserver passes to the callback is a matching
\* element that is, or has been, inside the given subtree root.
C6_FirstResultScope ==
    kind = "first" =>
        \A i \in 1..Len(calls) :
            Matches(calls[i].node) /\ calls[i].node \in hist.everInside

\* C7: with current = true and a matching element in the subtree at call
\* time, queryObserverAll has reported that element exactly once by the time
\* it returns; queryObserver has invoked the callback exactly once, has
\* registered no observer and has returned the no-op handle.
C7_PreExistingScan ==
    (current /\ handle # "none") =>
        /\ kind = "all" =>
              \A x \in hist.atCall : Matches(x) => ScanCalls(x) = 1
        /\ (kind = "first" /\ \E x \in hist.atCall : Matches(x)) =>
              /\ Len(calls) = 1
              /\ calls[1].via = "scan"
              /\ handle = "noop"
              /\ ~connected

\* C8: with current = false no callback is made during the call, and an
\* element that was in the subtree at call time and has not been inserted
\* since (neither itself nor inside an inserted container) is never passed
\* to the callback.
C8_NoScanNoReport ==
    current = FALSE =>
        /\ \A i \in 1..Len(calls) : calls[i].via # "scan"
        /\ \A x \in hist.atCall :
              hist.ins[x] = 0 => BatchCalls(x) = 0

\* C8 witness: a pre-existing match is still in the subtree, untouched,
\* while another insertion has been delivered and reported.
C8_Witness ==
    /\ current = FALSE
    /\ Len(calls) >= 1
    /\ \E x \in hist.atCall :
          Matches(x) /\ hist.ins[x] = 0 /\ x \in Subtree /\ x # parent

\* the positions of a batch's added nodes that yield a match
C9_Hits(ch, nodes) ==
    {i \in 1..Len(nodes) :
        /\ nodes[i] \in Elements
        /\ \E d \in InclDesc(ch, nodes[i]) : Matches(d)}

\* the element the selection rule names: the first added node that matches
\* or contains a match; itself if it matches, else its first matching
\* descendant in document order
C9_Expected(ch, nodes) ==
    LET i == CHOOSE k \in C9_Hits(ch, nodes) :
                 \A j \in C9_Hits(ch, nodes) : k <= j
        n == nodes[i]
        below == Descendants(ch, n)
        first == CHOOSE k \in 1..Len(below) :
                     /\ Matches(below[k])
                     /\ \A j \in 1..(k - 1) : ~Matches(below[j])
    IN  IF Matches(n) THEN n ELSE below[first]

\* C9: a batch delivered to queryObserver that makes it invoke the callback
\* makes it invoke it once, with the element the selection rule names.
C9_SelectionRule ==
    [][(kind = "first" /\ pc = "run" /\ calls' # calls) =>
          /\ C9_Hits(children, AddedNodes(queue)) # {}
          /\ calls' = Append(calls,
                Call(C9_Expected(children, AddedNodes(queue)), "batch"))]_vars

\* C9 witness: the batch held two nodes that yield a match and the report
\* was a descendant of the first of them.
C9_Witness ==
    /\ kind = "first"
    /\ Len(calls) = 1
    /\ calls[1].via = "batch"
    /\ Cardinality(C9_Hits(children, AddedNodes(hist.batch))) >= 2
    /\ calls[1].node \notin SeqToSet(AddedNodes(hist.batch))

\* the callbacks the mutation callback made for the last delivered batch
C10_Reported ==
    [i \in 1..(Len(calls) - hist.base) |-> calls[hist.base + i].node]

\* a delivered batch of one mutation that inserted the single element n
C10_Bulk(n) ==
    /\ kind = "all"
    /\ pc = "run"
    /\ Len(hist.batch) = 1
    /\ hist.batch[1].addedNodes = <<n>>
    /\ n \in Elements

\* C10: when the batch is one mutation inserting one element, the mutation
\* callback of queryObserverAll reports the element itself if it matches and
\* then the matching descendants it had at insertion, in document order.
C10_BulkInsertion ==
    \A n \in Node :
        C10_Bulk(n) =>
            C10_Reported = (IF Matches(n) THEN <<n>> ELSE <<>>)
                           \o hist.batch[1].inside[1]

\* C10 witness: a matching element with a matching descendant, or a
\* container with two matching descendants, was inserted and reported.
C10_Witness ==
    \E n \in Node :
        /\ C10_Bulk(n)
        /\ Len(C10_Reported) = 2
        /\ Len(hist.batch[1].inside[1]) >= 1

(* ---------------------------------------------------------------------- *)
(* Sequential insertions (C11): queryObserverAll on a document without     *)
(* matches; the script inserts one childless matching element at a time    *)
(* and lets the batch be delivered before the next insertion; callbacks    *)
(* only return.                                                            *)
(* ---------------------------------------------------------------------- *)

Init11 ==
    /\ children = [n \in AllNode |-> <<>>]
    /\ kind = "all"
    /\ current \in BOOLEAN
    /\ parent \in Parents
    /\ pc = "setup"
    /\ cbq = <<>>
    /\ todo = <<>>
    /\ connected = FALSE
    /\ transient = {}
    /\ queue = <<>>
    /\ found = FALSE
    /\ handle = "none"
    /\ calls = <<>>
    /\ ops = 0
    /\ hist = HistInit(parent) @@ [seq |-> <<>>]

\* before the call the script arranges the non-matching nodes
Arrange11 ==
    /\ pc = "setup"
    /\ \E e \in TreeOps :
        /\ e.op = "append"
        /\ ~Matches(e.a)
        /\ CanDo(World, e)
        /\ SetWorld(Do(World, parent, handle, e))
    /\ UNCHANGED <<kind, current, parent, pc, cbq, todo, found, handle, calls>>

\* p.appendChild(a): the next matching element goes into the subtree once
\* the previous batch has been delivered
Insert11 ==
    /\ pc = "run"
    /\ queue = <<>>
    /\ \E e \in TreeOps :
        /\ e.op = "append"
        /\ Matches(e.a)
        /\ children[e.a] = <<>>
        /\ e.p \in InclDesc(children, parent)
        /\ CanDo(World, e)
        /\ SetWorld([Do(World, parent, handle, e)
                        EXCEPT !.hist.seq = Append(@, e.a)])
    /\ UNCHANGED <<kind, current, parent, pc, cbq, todo, found, handle, calls>>

\* a callback(node) of the mutation callback that only returns
Handler11 ==
    /\ HandlerCallback
    /\ UNCHANGED <<ops, connected>>

Next11 ==
    \/ Arrange11
    \/ QueryObserverAll
    \/ Insert11
    \/ DeliverAll
    \/ Handler11

Spec11 == Init11 /\ [][Next11]_vars

\* the nodes callback has received, in order
CalledNodes == [i \in 1..Len(calls) |-> calls[i].node]

\* C11: with no pre-existing matches, after N matching elements have been
\* inserted one after another, each delivered in its own batch, the callback
\* has been invoked exactly N times, the i-th time with the i-th element.
C11_Sequential ==
    (pc = "run" /\ queue = <<>>) => CalledNodes = hist.seq

\* C11 witness: at least two insertions, divB among them, have been delivered and reported.
C11_Witness ==
    /\ pc = "run"
    /\ queue = <<>>
    /\ Len(hist.seq) >= 2
    /\ Len(calls) = Len(hist.seq)
    /\ \E i \in 1..Len(hist.seq) : hist.seq[i] = DivB

(* ---------------------------------------------------------------------- *)
(* Repeated invocations of the handle (C12, C13): the script counts its    *)
(* invocations of the returned handle and notes whether the first one      *)
(* found a batch with a match still undelivered, and how many tree         *)
(* operations had been made by then.                                       *)
(* ---------------------------------------------------------------------- *)

\* how often the script invokes the handle
MaxCancels == 2

Init12 ==
    /\ children = [n \in AllNode |-> <<>>]
    /\ kind \in {"all", "first"}
    /\ current \in BOOLEAN
    /\ parent \in Parents
    /\ pc = "setup"
    /\ cbq = <<>>
    /\ todo = <<>>
    /\ connected = FALSE
    /\ transient = {}
    /\ queue = <<>>
    /\ found = FALSE
    /\ handle = "none"
    /\ calls = <<>>
    /\ ops = 0
    /\ hist = HistInit(parent) @@ [cancels |-> 0, pending |-> FALSE, at |-> 0]

\* the script attaches sub or inserts a matching element
Script12 ==
    /\ pc \in {"setup", "run"}
    /\ \E e \in TreeOps :
        /\ e.op = "append"
        /\ e.a \in {Sub, DivA, DivB}
        /\ e.p \in {Body, Sub, DivA}
        /\ CanDo(World, e)
        /\ SetWorld(Do(World, parent, handle, e))
    /\ UNCHANGED <<kind, current, parent, pc, cbq, todo, found, handle, calls>>

\* the caller invokes the returned handle outside any callback
Cancel12 ==
    /\ pc = "run"
    /\ handle # "none"
    /\ hist.cancels < MaxCancels
    /\ SetWorld([Do(World, parent, handle, CancelOp) EXCEPT
            !.hist.cancels = @ + 1,
            !.hist.pending =
                IF hist.cancelled THEN @
                ELSE FirstPick(children, AddedNodes(queue)) # None,
            !.hist.at = IF hist.cancelled THEN @ ELSE ops])
    /\ UNCHANGED <<kind, current, parent, pc, cbq, todo, found, handle, calls>>

Next12 ==
    \/ Script12
    \/ QueryObserverAll
    \/ ScanCallback
    \/ DeliverAll
    \/ HandlerCallback
    \/ QueryObserver
    \/ DeliverFirst
    \/ Cancel12

Spec12 == Init12 /\ [][Next12]_vars

\* C12: an invocation of the handle that is not the first one leaves the
\* subscription as it was: detached, nothing pending, no callback made.
C12_IdempotentCancel ==
    [][(hist.cancelled /\ hist'.cancels > hist.cancels) =>
          /\ ~connected'
          /\ queue' = <<>>
          /\ UNCHANGED <<connected, transient, queue, found, calls, handle,
                         pc, cbq, todo, children>>]_vars

\* C12 witness: queryObserver has matched and detached itself and the
\* handle has then been invoked twice.
C12_Witness ==
    /\ kind = "first"
    /\ found
    /\ hist.cancels = 2
    /\ Len(calls) = 1

\* C13: once the handle of queryObserver has been invoked before any
\* callback, no callback is ever made.
C13_CancelBeforeMatch ==
    [][(kind = "first" /\ hist.cancelled /\ calls = <<>>) =>
          calls' = <<>>]_vars

\* C13 witness: the handle was invoked while a batch with a matching
\* insertion was undelivered, further matching elements were inserted into
\* the subtree afterwards, and no callback has been made.
C13_Witness ==
    /\ kind = "first"
    /\ hist.pending
    /\ calls = <<>>
    /\ queue = <<>>
    /\ ops > hist.at
    /\ \A x \in {DivA, DivB} : x \in Subtree /\ hist.ins[x] > 0

(* ---------------------------------------------------------------------- *)
(* Delivery under fairness (C14): the host runs the mutation callback for  *)
(* every non-empty record queue at the next microtask checkpoint, and a    *)
(* started pre-scan or mutation callback runs to its end.                  *)
(* ---------------------------------------------------------------------- *)

Init14 ==
    /\ Init
    /\ kind = "all"

Next14 ==
    \/ Script12
    \/ QueryObserverAll
    \/ ScanCallback
    \/ DeliverAll
    \/ HandlerCallback
    \/ Cancel

\* the callback invoked by the pre-scan or by the mutation callback returns
Callback14 ==
    /\ pc \in {"scan", "handler"}
    /\ cbq # <<>>
    /\ calls' = Append(calls, Call(Head(cbq),
                                   IF pc = "scan" THEN "scan" ELSE "batch"))

\* the browser delivers queued records at the next microtask checkpoint, and
\* a callback of the model returns
Spec14 ==
    Init14 /\ [][Next14]_vars /\ WF_vars(DeliverAll) /\ WF_calls(Callback14)

\* the attached observer holds an undelivered record that adds x
Queued(x) ==
    /\ connected
    /\ \E i \in 1..Len(queue) : x \in SeqToSet(queue[i].addedNodes)

\* when the mutation callback has returned, it has passed to the callback
\* every matching element the delivered batch added
Reported ==
    pc = "run" =>
        \A x \in SeqToSet(AddedNodes(hist.batch)) :
            Matches(x) =>
                \E i \in (hist.base + 1)..Len(calls) : calls[i].node = x

C15_OnlyMatches ==
    \A i \in 1..Len(calls) :
        /\ calls[i].node \in Elements
        /\ Matches(calls[i].node)

\* C15 witness: a delivered batch added the non-matching element box, a
\* text node was inserted as well, and a matching descendant of box was
\* passed to the callback for that batch.
C15_Witness ==
    /\ Box \in SeqToSet(AddedNodes(hist.batch))
    /\ hist.ins[Text] > 0
    /\ \E i \in (hist.base + 1)..Len(calls) :
        /\ calls[i].via = "batch"
        /\ calls[i].node \in SeqToSet(Descendants(children, Box))
(* ---------------------------------------------------------------------- *)
(* C16: the found flag of queryObserver.                                   *)
(* ---------------------------------------------------------------------- *)

\* C16: found starts false and only changes from false to true, together
\* with exactly one callback; whenever found is true the observer is
\* detached with nothing left to deliver, and no step taken while found is
\* true invokes the callback.
C16_FoundGuard ==
    /\ ~found
    /\ [](found => (kind = "first" /\ ~connected /\ queue = <<>>))
    /\ [][found => (found' /\ calls' = calls)]_vars
    /\ [][(~found /\ found') =>
            (~connected' /\ queue' = <<>> /\ Len(calls') = Len(calls) + 1)]_vars

\* C16 witness: found was set by a batch that added several nodes, one
\* callback was made, and the insertions made from then on left nothing
\* recorded.
C16_Witness ==
    /\ found
    /\ ~hist.cancelled
    /\ Len(AddedNodes(hist.batch)) >= 2
    /\ Len(calls) = 1
    /\ calls[1].via = "batch"
    /\ ops = MaxOps
    /\ queue = <<>>
(* ---------------------------------------------------------------------- *)
(* C17: two subscriptions.  Every call of queryObserverAll or             *)
(* queryObserver creates its own MutationObserver, and queryObserver its   *)
(* own found; in this specification the variables of a subscription are    *)
(* functions of the subscription, the tree is shared, the callbacks only   *)
(* return, and a mutation callback runs as one step.  hist[s].alone is     *)
(* subscription s run by the same code with no other subscription there.   *)
(* ---------------------------------------------------------------------- *)

Subs == {1, 2}

\* the number of insertions the script of this specification makes
MaxOps17 == 2

\* what one call of a matcher owns
SubState(s) ==
    [connected |-> connected[s], transient |-> transient[s],
     queue |-> queue[s], found |-> found[s], calls |-> calls[s],
     handle |-> handle[s]]

NoSub ==
    [connected |-> FALSE, transient |-> {}, queue |-> <<>>, found |-> FALSE,
     calls |-> <<>>, handle |-> "none"]

\* the world one observer sees
WorldOf(r, par) ==
    [children |-> children, transient |-> r.transient, queue |-> r.queue,
     connected |-> r.connected, ops |-> ops, hist |-> HistInit(par)]

\* the observer of r after the tree operation or handle invocation e
Observed(r, par, e) ==
    LET w == Do(WorldOf(r, par), par, r.handle, e)
    IN  [r EXCEPT !.transient = w.transient, !.queue = w.queue,
                  !.connected = w.connected]

\* one flag for all calls of queryObserver
FoundShared(f, s) == \E t \in Subs : f[t]

\* let found = false: the flag of this call of queryObserver
FoundOf(f, s) == f[s]

Scanned(nodes) == [i \in 1..Len(nodes) |-> Call(nodes[i], "scan")]

\* the call of a matcher, with callbacks that only return
Subscribed(r, knd, cur, ch) ==
    IF knd = "all"
    THEN Observe([r EXCEPT
            !.calls = IF cur THEN Scanned(DocQuerySelectorAll(ch)) ELSE <<>>,
            !.handle = "disconnect"])
    ELSE IF cur /\ DocQuerySelector(ch) # None
    THEN EarlyReturn([r EXCEPT
            !.calls = <<Call(DocQuerySelector(ch), "scan")>>,
            !.handle = "noop"])
    ELSE Observe([r EXCEPT !.handle = "disconnect"])

RECURSIVE BatchCallbacks(_, _)
\* queryObserverAll's mutation callback: the callbacks of a whole batch
BatchCallbacks(ch, nodes) ==
    IF nodes = <<>> THEN <<>>
    ELSE NodeCallbacks(ch, Head(nodes)) \o BatchCallbacks(ch, Tail(nodes))

\* the mutation callback of r run on its queued records; f is the value
\* "if (!found)" reads
Delivered(r, knd, ch, f) ==
    LET all == BatchCallbacks(ch, AddedNodes(r.queue))
        first == FirstPick(ch, AddedNodes(r.queue))
    IN  IF ~r.connected \/ r.queue = <<>> THEN r
        ELSE IF knd = "all"
        THEN [r EXCEPT
                !.queue = <<>>, !.transient = {},
                !.calls = @ \o [i \in 1..Len(all) |-> Call(all[i], "batch")]]
        ELSE IF ~f /\ first # None
        THEN Disconnect([r EXCEPT
                !.found = TRUE,
                !.calls = Append(@, Call(first, "batch"))])
        ELSE [r EXCEPT !.queue = <<>>, !.transient = {}]

\* nxt[s] becomes the state of subscription s, alone[s] that of s alone
SetSubs(nxt, alone, cancelled) ==
    /\ connected' = [s \in Subs |-> nxt[s].connected]
    /\ transient' = [s \in Subs |-> nxt[s].transient]
    /\ queue' = [s \in Subs |-> nxt[s].queue]
    /\ found' = [s \in Subs |-> nxt[s].found]
    /\ calls' = [s \in Subs |-> nxt[s].calls]
    /\ handle' = [s \in Subs |-> nxt[s].handle]
    /\ hist' = [s \in Subs |->
                    [cancelled |-> cancelled[s], alone |-> alone[s]]]

Init17 ==
    /\ children = [n \in AllNode |-> <<>>]
    /\ kind \in [Subs -> {"all", "first"}]
    /\ current \in [Subs -> BOOLEAN]
    /\ parent \in [Subs -> Parents]
    /\ pc = [s \in Subs |-> "setup"]
    /\ cbq = <<>>
    /\ todo = <<>>
    /\ connected = [s \in Subs |-> FALSE]
    /\ transient = [s \in Subs |-> {}]
    /\ queue = [s \in Subs |-> <<>>]
    /\ found = [s \in Subs |-> FALSE]
    /\ handle = [s \in Subs |-> "none"]
    /\ calls = [s \in Subs |-> <<>>]
    /\ ops = 0
    /\ hist = [s \in Subs |-> [cancelled |-> FALSE, alone |-> NoSub]]

\* a script inserts a node
Script17 ==
    \E e \in TreeOps :
        /\ e.op = "append"
        /\ e.a \in {Sub, DivA, DivB}
        /\ e.p \in {Body, Sub, DivA}
        /\ ops < MaxOps17
        /\ CanDo(WorldOf(NoSub, Body), e)
        /\ children' = Do(WorldOf(NoSub, Body), Body, "none", e).children
        /\ ops' = ops + 1
        /\ SetSubs([s \in Subs |-> Observed(SubState(s), parent[s], e)],
                   [s \in Subs |-> Observed(hist[s].alone, parent[s], e)],
                   [s \in Subs |-> hist[s].cancelled])
        /\ UNCHANGED <<kind, current, parent, pc, cbq, todo>>

\* the script calls a matcher; subscription 1 is created first
Subscribe17 ==
    \E s \in Subs :
        /\ pc[s] = "setup"
        /\ s = 1 \/ pc[1] = "run"
        /\ pc' = [pc EXCEPT ![s] = "run"]
        /\ SetSubs([t \in Subs |->
                        IF t = s
                        THEN Subscribed(SubState(t), kind[t], current[t],
                                        children)
                        ELSE SubState(t)],
                   [t \in Subs |->
                        IF t = s
                        THEN Subscribed(hist[t].alone, kind[t], current[t],
                                        children)
                        ELSE hist[t].alone],
                   [t \in Subs |-> hist[t].cancelled])
        /\ UNCHANGED <<children, kind, current, parent, cbq, todo, ops>>

\* the microtask that notifies the observers holding records, in the order
\* of their creation
Deliver17 ==
    /\ \E s \in Subs : connected[s] /\ queue[s] # <<>>
    /\ LET r1 == Delivered(SubState(1), kind[1], children, FoundOf(found, 1))
           f1 == [found EXCEPT ![1] = r1.found]
           r2 == Delivered(SubState(2), kind[2], children, FoundOf(f1, 2))
       IN  SetSubs([s \in Subs |-> IF s = 1 THEN r1 ELSE r2],
                   [s \in Subs |-> Delivered(hist[s].alone, kind[s], children,
                                             hist[s].alone.found)],
                   [s \in Subs |-> hist[s].cancelled])
    /\ UNCHANGED <<children, kind, current, parent, pc, cbq, todo, ops>>

\* the script invokes the handle of one subscription
Cancel17 ==
    \E s \in Subs :
        /\ pc[s] = "run"
        /\ ~hist[s].cancelled
        /\ SetSubs([t \in Subs |->
                        IF t = s
                        THEN Observed(SubState(t), parent[t], CancelOp)
                        ELSE SubState(t)],
                   [t \in Subs |->
                        IF t = s
                        THEN Observed(hist[t].alone, parent[t], CancelOp)
                        ELSE hist[t].alone],
                   [t \in Subs |-> t = s \/ hist[t].cancelled])
        /\ UNCHANGED <<children, kind, current, parent, pc, cbq, todo, ops>>

Next17 ==
    \/ Script17
    \/ Subscribe17
    \/ Deliver17
    \/ Cancel17

Spec17 == Init17 /\ [][Next17]_vars

Init18 ==
    /\ children = [n \in AllNode |-> <<>>]
    /\ kind \in {"all", "first"}
    /\ current \in BOOLEAN
    /\ parent \in Parents
    /\ pc = "setup"
    /\ cbq = <<>>
    /\ todo = <<>>
    /\ connected = FALSE
    /\ transient = {}
    /\ queue = <<>>
    /\ found = FALSE
    /\ handle = "none"
    /\ calls = <<>>
    /\ ops = 0
    /\ hist = HistInit(parent) @@ [thrown |-> "none"]

\* the script inserts an element or a text node
Script18 ==
    /\ pc \in {"setup", "run"}
    /\ \E e \in TreeOps :
        /\ e.op = "append"
        /\ e.a \in {Sub, DivA, Text}
        /\ e.p \in Parents
        /\ CanDo(World, e)
        /\ SetWorld(Do(World, parent, handle, e))
    /\ UNCHANGED <<kind, current, parent, pc, cbq, todo, found, handle, calls>>

\* the selector is used: the host throws, nothing catches
Throw(w, to) == [w EXCEPT !.hist.thrown = to]

\* queryObserverAll(selector, ...) or queryObserver(selector, ...): the
\* pre-scan is the only use of the selector during the call
Call18 ==
    /\ pc = "setup"
    /\ IF PreScan
       THEN /\ SetWorld(Throw(AtCall(World), "caller"))
            /\ pc' = "threw"
            /\ UNCHANGED handle
       ELSE /\ SetWorld(Observe(AtCall(World)))
            /\ pc' = "run"
            /\ handle' = "disconnect"
    /\ UNCHANGED <<kind, current, parent, cbq, todo, found, calls>>

\* the mutation callback of either matcher: the first added node that is an
\* Element is asked querySelectorAll / matches
Deliver18 ==
    /\ pc = "run"
    /\ queue # <<>>
    /\ IF \E i \in 1..Len(AddedNodes(queue)) :
            AddedNodes(queue)[i] \in Elements
       THEN SetWorld(Throw(Taken(World), "host"))
       ELSE SetWorld(Taken(World))
    /\ UNCHANGED <<kind, current, parent, pc, cbq, todo, found, handle, calls>>

Next18 ==
    \/ Script18
    \/ Call18
    \/ Deliver18
    \/ Cancel

Spec18 == Init18 /\ [][Next18]_vars

\* C18: for either matcher and either value of current, the error of a
\* rejected selector reaches the caller of the matcher, which returns no
\* handle.
C18_InvalidSelector ==
    hist.called =>
        /\ pc = "threw"
        /\ handle = "none"
        /\ hist.thrown = "caller"

\* C18 as amended: with current set the error leaves the call of the matcher
\* and no handle is returned; with current clear the call returns a handle
\* normally, and an error is raised only out of a mutation callback, to the
\* host, when a delivered batch adds an element; the callback is never
\* invoked and the matcher never detaches itself.
C18_Amended ==
    /\ (hist.called /\ current) =>
            /\ pc = "threw"
            /\ handle = "none"
            /\ ~connected
            /\ hist.thrown = "caller"
    /\ (hist.called /\ ~current) =>
            /\ pc = "run"
            /\ handle = "disconnect"
            /\ hist.thrown \in {"none", "host"}
            /\ (\E i \in 1..Len(AddedNodes(hist.batch)) :
                    AddedNodes(hist.batch)[i] \in Elements)
                    => hist.thrown = "host"
            /\ hist.thrown = "host" => \E x \in Elements : hist.ins[x] > 0
            /\ ~hist.cancelled => connected
    /\ ~hist.called => hist.thrown = "none"
    /\ calls = <<>>
    /\ ~found

\* C18 witness: called with current clear, the matcher returned its handle
\* and a later batch that added an element raised the error to the host.
C18_Witness ==
    /\ hist.called
    /\ ~current
    /\ handle = "disconnect"
    /\ connected
    /\ hist.thrown = "host"
    /\ queue # <<>>

(* ---------------------------------------------------------------------- *)
(* C19: the pre-scan of queryObserverAll and the moment the observer is    *)
(* registered.  The document of this specification already holds a         *)
(* matching element; hist.list is the NodeList of the pre-scan and         *)
(* hist.scanIns the insertions counted when observer.observe is reached.   *)
(* ---------------------------------------------------------------------- *)

\* body > sub > divB
Page ==
    [n \in AllNode |->
        IF n = Body THEN <<Sub>> ELSE IF n = Sub THEN <<DivB>> ELSE <<>>]

Init19 ==
    /\ children = Page
    /\ kind = "all"
    /\ current \in BOOLEAN
    /\ parent \in Parents
    /\ pc = "setup"
    /\ cbq = <<>>
    /\ todo = <<>>
    /\ connected = FALSE
    /\ transient = {}
    /\ queue = <<>>
    /\ found = FALSE
    /\ handle = "none"
    /\ calls = <<>>
    /\ ops = 0
    /\ hist = [HistInit(parent) EXCEPT !.everInside = InclDesc(Page, parent)]
              @@ [list |-> <<>>, scanIns |-> [x \in AllNode |-> 0]]

\* a pre-scan over a list that follows the document: elements that match by
\* now and were not visited are visited too
ScanRestLive(ch, q) ==
    LET New(x) == /\ x \notin SeqToSet(q)
                  /\ \A i \in 1..Len(calls) : calls[i].node # x
    IN  Tail(q) \o SelectSeq(DocQuerySelectorAll(ch), New)

\* for (const element of elements): querySelectorAll returned a static
\* NodeList, the loop goes on with the rest of it whatever the tree is now
ScanRest(ch, q) == Tail(q)

\* observation only: the pre-scan is over, observer.observe is next
ScanOver(w) == [w EXCEPT !.hist.scanIns = w.hist.ins]

\* queryObserverAll(selector, callback, current, parent) is called
Call19 ==
    /\ pc = "setup"
    /\ IF PreScan /\ DocQuerySelectorAll(children) # <<>>
       THEN /\ cbq' = DocQuerySelectorAll(children)
            /\ pc' = "scan"
            /\ SetWorld([AtCall(World) EXCEPT
                            !.hist.list = DocQuerySelectorAll(children)])
            /\ UNCHANGED handle
       ELSE /\ cbq' = <<>>
            /\ pc' = "run"
            /\ SetWorld(Observe(ScanOver(AtCall(World))))
            /\ handle' = "disconnect"
    /\ UNCHANGED <<kind, current, parent, todo, found, calls>>

\* one callback of the pre-scan; after the last one the observer is
\* registered and the handle returned
Scan19 ==
    /\ pc = "scan"
    /\ cbq # <<>>
    /\ calls' = Append(calls, Call(Head(cbq), "scan"))
    /\ \E e \in CallbackEffects(World, handle) :
        /\ cbq' = ScanRest(Do(World, parent, handle, e).children, cbq)
        /\ IF cbq' = <<>>
           THEN /\ SetWorld(Observe(ScanOver(Do(World, parent, handle, e))))
                /\ handle' = "disconnect"
                /\ pc' = "run"
           ELSE /\ SetWorld(Do(World, parent, handle, e))
                /\ UNCHANGED <<handle, pc>>
    /\ UNCHANGED <<kind, current, parent, todo, found>>

Next19 ==
    \/ Script12
    \/ Call19
    \/ Scan19
    \/ DeliverAll
    \/ HandlerCallback
    \/ Cancel

Spec19 == Init19 /\ [][Next19]_vars

\* the callbacks of the pre-scan, in order
ScanSeq ==
    LET ViaScan(c) == c.via = "scan"
    IN  SelectSeq(calls, ViaScan)

\* C19: while the pre-scan runs no observer is registered and no handle
\* returned; the pre-scan visits exactly the list taken at the call, in
\* order; an element is reported from a batch only if it was inserted, itself
\* or inside an inserted node, after the pre-scan ended.
C19_ScanThenObserve ==
    /\ pc = "scan" => (~connected /\ queue = <<>> /\ handle = "none")
    /\ pc = "scan" =>
            hist.list = [i \in 1..Len(ScanSeq) |-> ScanSeq[i].node] \o cbq
    /\ pc = "run" =>
            hist.list = [i \in 1..Len(ScanSeq) |-> ScanSeq[i].node]
    /\ \A x \in {DivA, DivB} :
            BatchCalls(x) > 0 => hist.ins[x] > hist.scanIns[x]

\* C19 witness: divA was inserted by a callback of the pre-scan and never
\* reported; divB, present at the call, was reported by the pre-scan and,
\* inserted again afterwards, from a batch.
C19_Witness ==
    /\ pc = "run"
    /\ DivA \notin SeqToSet(hist.list)
    /\ hist.scanIns[DivA] > 0
    /\ hist.ins[DivA] = hist.scanIns[DivA]
    /\ DivA \in Subtree
    /\ ScanCalls(DivA) = 0
    /\ BatchCalls(DivA) = 0
    /\ ScanCalls(DivB) = 1
    /\ BatchCalls(DivB) > 0

====
